---- MODULE Spec2Model ----
(***************************************************************************)
(* A model of src/lib/index.tsx: the query provider built by               *)
(* generateQueryProvider (the cache map, the listener map, get / set /     *)
(* attachListener / invalidateCache / fetch) and the subscribers made by   *)
(* useQuery: the listener each one attaches (loadState), its first fetch,  *)
(* its refresh timer and the cleanup of its effect.                        *)
(*                                                                         *)
(* JavaScript runs one task at a time, so every action below is one        *)
(* synchronous run of code, from its start to its first await (or to its   *)
(* end).  The awaits are the suspension points: the promise returned by    *)
(* fetchFn() inside fetch, and the promise returned by the primary         *)
(* listener inside invalidateCache.                                        *)
(***************************************************************************)
EXTENDS Integers, Sequences, FiniteSets, TLC

VARIABLES
    map,        \* line 17: queryKey -> [data, insertedAt]
    listeners,  \* line 18: queryKey -> sequence of callbacks
    now,        \* the value Date.now() returns, in milliseconds
    calls,      \* the calls of fetch, in the order they were made
    invs,       \* the calls of invalidateCache that found a listener array
    subs,       \* the subscribers: the effects of lines 122-140, once per useQuery
    last        \* the operation that ran last (history)

vars == <<map, listeners, now, calls, invs, subs, last>>

----------------------------------------------------------------------------
(* Bounds of the model *)

MaxDirect == 1      \* fetch calls made from outside in one behaviour
MaxCalls == 3       \* fetch calls in one behaviour, those of listeners included
MaxInvs == 2        \* invalidateCache calls that reach a listener array
MaxListeners == 2   \* callbacks attached to one key
MaxTicks == 2       \* clock ticks in one behaviour
MaxCount == 5       \* the invocation counter of a call saturates here
MaxSubs == 2        \* subscribers mounted in one behaviour

(* Program constants *)

MaxRetries == 3         \* line 63: tries >= 3
DefaultTimeout == 300   \* line 59: opts?.timeoutInSeconds ?? 300
MsPerSecond == 1000     \* line 59: (Date.now() - cache.insertedAt) / 1000

(* Inputs *)

Keys == {"k1", "k2"}
Values == {"v1", "v2"}
NoValue == "none"
\* opts: <<>> is an absent opts (or an absent timeoutInSeconds), <<t>> carries one
OptsInputs == {<<>>, <<1>>}
TriesInputs == {0, MaxRetries}
\* callbacks handed to attachListener: the one useQuery attaches (lines 123-129),
\* and two callbacks of other callers: one that resolves, one that rejects
Callbacks == {"loadState", "resolve", "reject"}

----------------------------------------------------------------------------
(* The cache map *)

has(m, queryKey) == queryKey \in DOMAIN m

MapSet(m, queryKey, data, t) ==
    [x \in DOMAIN m \cup {queryKey} |->
        IF x = queryKey THEN [data |-> data, insertedAt |-> t] ELSE m[x]]

(* Faulty variants of MapDelete: a delete that deletes nothing, and map.clear() *)
MapDeleteNothing(m, queryKey) == m

MapDeleteAll(m, queryKey) == <<>>

MapDelete(m, queryKey) == [x \in DOMAIN m \ {queryKey} |-> m[x]]

(* Line 28: get(queryKey) is map.get(queryKey); <<>> stands for undefined *)
get(m, queryKey) == IF has(m, queryKey) THEN <<m[queryKey]>> ELSE <<>>

(* Faulty variant of set: every entry of the map is stamped again *)
setRestampAll(m, queryKey, data, t) ==
    [x \in DOMAIN m \cup {queryKey} |->
        IF x = queryKey
        THEN [data |-> data, insertedAt |-> t]
        ELSE [m[x] EXCEPT !.insertedAt = t]]

(* Lines 32-35: set(queryKey, data) stamps the entry with Date.now() *)
set(m, queryKey, data, t) == MapSet(m, queryKey, data, t)

----------------------------------------------------------------------------
(* fetch, lines 56-76 *)

(* Line 59: opts?.timeoutInSeconds ?? 300 *)
Timeout(opts) == IF opts = <<>> THEN DefaultTimeout ELSE opts[1]

(* Faulty variant of IsStale: the division by 1000 forgotten *)
IsStaleNoDivide(cache, opts, t) == (t - cache.insertedAt) > Timeout(opts)

(* Line 59, the second disjunct: (Date.now() - cache.insertedAt) / 1000 >   *)
(* timeout.  The division is a floating point one, so the comparison is the *)
(* one below on integers.                                                   *)
IsStale(cache, opts, t) == (t - cache.insertedAt) > Timeout(opts) * MsPerSecond

(* Line 70: the value of the expression tries++ is the value tries had      *)
(* before the increment; the incremented local is never read again.         *)
PostIncrement(tries) == tries

(* Line 66: one more invocation of fetchFn, counted up to MaxCount *)
Bump(n) == IF n < MaxCount THEN n + 1 ELSE MaxCount

(* A call of fetch as it is made (line 56): tries defaults to 0 *)
NewCall(queryKey, opts, tries, owner, t) ==
    [key |-> queryKey, opts |-> opts, tries |-> tries, pc |-> "entered",
     invocations |-> 0, result |-> NoValue, startedAt |-> t, owner |-> owner]

(* Lines 57-75 up to the await of line 66: the lookup, the test of line 59, *)
(* the throw of line 63, the invocation of fetchFn, or the return of the    *)
(* cached data (line 74).  pc: "awaiting" (suspended at line 66),           *)
(* "returned" (the promise is fulfilled with result), "thrown" (the promise *)
(* is rejected with the error of line 63).                                  *)
fetchEnter(m, t, rec) ==
    LET cache == get(m, rec.key) IN
    IF cache = <<>> \/ IsStale(cache[1], rec.opts, t)
    THEN IF rec.tries >= MaxRetries
         THEN [rec EXCEPT !.pc = "thrown"]
         ELSE [rec EXCEPT !.pc = "awaiting", !.invocations = Bump(@)]
    ELSE [rec EXCEPT !.pc = "returned", !.result = cache[1].data]

(* Line 56: a call of fetch by owner; it runs to its first await or its end *)
fetch(st, t, queryKey, opts, tries, owner) ==
    [st EXCEPT !.calls =
        Append(@, fetchEnter(st.map, t, NewCall(queryKey, opts, tries, owner, t)))]

(* Faulty variant of fetchFulfilled: the entry stamped with the time the call began *)
fetchFulfilledStampStart(st, t, c, data) ==
    [st EXCEPT !.map = MapSet(@, st.calls[c].key, data, st.calls[c].startedAt),
               !.calls[c].pc = "returned",
               !.calls[c].result = data]

(* Faulty variant of fetchFulfilled: the first completion of a key wins *)
fetchFulfilledKeepFirst(st, t, c, data) ==
    [st EXCEPT !.map = IF has(@, st.calls[c].key)
                       THEN @
                       ELSE MapSet(@, st.calls[c].key, data, t),
               !.calls[c].pc = "returned",
               !.calls[c].result = data]

(* Faulty variant of fetchFulfilled: the result of a call that is older     *)
(* than an invalidation of its key is dropped                                *)
fetchFulfilledDropOlder(st, t, c, data) ==
    [st EXCEPT !.map = IF \E i \in DOMAIN st.invs :
                              /\ st.invs[i].key = st.calls[c].key
                              /\ Len(st.calls[c].owner) = 2
                              /\ st.calls[c].owner[1] < i
                       THEN @
                       ELSE MapSet(@, st.calls[c].key, data, t),
               !.calls[c].pc = "returned",
               !.calls[c].result = data]

(* Lines 66-68: fetchFn's promise is fulfilled with data *)
fetchFulfilled(st, t, c, data) ==
    [st EXCEPT !.map = set(@, st.calls[c].key, data, t),
               !.calls[c].pc = "returned",
               !.calls[c].result = data]

(* Faulty variant of fetchRejected: the catch block caches the failure *)
fetchRejectedPoison(st, t, c) ==
    [st EXCEPT !.map = MapSet(@, st.calls[c].key, NoValue, t),
               !.calls[c] =
                   fetchEnter(st.map, t, [@ EXCEPT !.tries = PostIncrement(@)])]

(* Faulty variant of fetchRejected: the retry invokes fetchFn again without *)
(* looking the key up                                                        *)
fetchRejectedNoRecheck(st, t, c) ==
    [st EXCEPT !.calls[c].invocations = Bump(@)]

(* Lines 69-71: fetchFn's promise is rejected; the call returns what the    *)
(* recursive call of line 70 returns, so the record is entered again        *)
fetchRejected(st, t, c) ==
    [st EXCEPT !.calls[c] =
        fetchEnter(st.map, t, [@ EXCEPT !.tries = PostIncrement(@)])]

Done(rec) == rec.pc \in {"returned", "thrown"}

----------------------------------------------------------------------------
(* Listeners and invalidation, lines 37-54 *)

(* Lines 37-41 *)
attachListener(st, queryKey, cb) ==
    LET listenerArray ==
            IF has(st.listeners, queryKey) THEN st.listeners[queryKey] ELSE <<>>
    IN  [st EXCEPT !.listeners =
            [x \in DOMAIN st.listeners \cup {queryKey} |->
                IF x = queryKey THEN Append(listenerArray, cb)
                ELSE st.listeners[x]]]

(* cb("refetch") up to its first await.  The callback useQuery attaches      *)
(* (lines 123-129) awaits loadState, which calls fetch with the key alone    *)
(* (line 96): no opts, no tries.  The other callbacks touch no state.        *)
Invoke(st, t, cb, queryKey, owner) ==
    IF cb = "loadState" THEN fetch(st, t, queryKey, <<>>, 0, owner) ELSE st

(* The fetch call made by listener j of invalidation i; 0 if it made none *)
CallOf(cs, i, j) ==
    IF \E c \in DOMAIN cs : cs[c].owner = <<i, j>>
    THEN CHOOSE c \in DOMAIN cs : cs[c].owner = <<i, j>>
    ELSE 0

(* The state of the promise primary("refetch") returned.  loadState catches  *)
(* the error of fetch (lines 95-100), so its promise is fulfilled once the   *)
(* fetch call has ended either way.                                          *)
PrimaryPromise(st, i) ==
    LET cb == st.invs[i].primary IN
    CASE cb = "resolve" -> "fulfilled"
      [] cb = "reject" -> "rejected"
      [] OTHER -> IF Done(st.calls[CallOf(st.calls, i, 1)])
                  THEN "fulfilled" ELSE "pending"

(* Line 51: rest.forEach((cb) => cb("refetch")), from position j on *)
RECURSIVE forEachRest(_, _, _, _)
forEachRest(st, t, i, j) ==
    LET inv == st.invs[i] IN
    IF j > Len(inv.rest) THEN st
    ELSE forEachRest(
            Invoke([st EXCEPT !.invs[i].invoked = Append(@, inv.rest[j])],
                   t, inv.rest[j], inv.key, <<i, j + 1>>),
            t, i, j + 1)

(* Faulty variant of invalidateCache: every listener is invoked at once *)
invalidateCacheEager(st, t, queryKey) ==
    LET deleted == [st EXCEPT !.map = MapDelete(@, queryKey)] IN
    IF has(st.listeners, queryKey)
    THEN LET listenerArray == st.listeners[queryKey]
             i == Len(st.invs) + 1
             called == [deleted EXCEPT !.invs = Append(@,
                          [key |-> queryKey, primary |-> Head(listenerArray),
                           rest |-> Tail(listenerArray),
                           pc |-> "pending", invoked |-> <<Head(listenerArray)>>])]
         IN  forEachRest(Invoke(called, t, Head(listenerArray), queryKey, <<i, 1>>),
                         t, i, 1)
    ELSE deleted

(* Lines 43-54, to the end of the synchronous part: the entry is deleted,    *)
(* the listener array is split, primary is invoked and .then registers the   *)
(* callback.  A key is in listeners only with a non-empty array (line 38 is  *)
(* followed by the push of line 40).                                         *)
invalidateCache(st, t, queryKey) ==
    LET deleted == [st EXCEPT !.map = MapDelete(@, queryKey)] IN
    IF has(st.listeners, queryKey)
    THEN LET listenerArray == st.listeners[queryKey]
             primary == Head(listenerArray)
             rest == Tail(listenerArray)
             i == Len(st.invs) + 1
             called == [deleted EXCEPT !.invs = Append(@,
                          [key |-> queryKey, primary |-> primary, rest |-> rest,
                           pc |-> "pending", invoked |-> <<primary>>])]
         IN  Invoke(called, t, primary, queryKey, <<i, 1>>)
    ELSE deleted

(* Faulty variant of primaryThen: the test of line 51 forgotten *)
primaryThenAlways(st, t, i) ==
    forEachRest([st EXCEPT !.invs[i].pc = "notified"], t, i, 1)

(* Lines 50-52: the callback of .then, run when primary's promise is fulfilled *)
primaryThen(st, t, i) ==
    IF has(st.map, st.invs[i].key)
    THEN forEachRest([st EXCEPT !.invs[i].pc = "notified"], t, i, 1)
    ELSE [st EXCEPT !.invs[i].pc = "skipped"]

(* Number of loadState callbacks in a sequence: the fetch calls invoking it makes *)
RECURSIVE Loads(_)
Loads(cbs) ==
    IF cbs = <<>> THEN 0
    ELSE (IF Head(cbs) = "loadState" THEN 1 ELSE 0) + Loads(Tail(cbs))

----------------------------------------------------------------------------
(* useQuery, lines 86-143.  A subscriber is one run of its effects: the      *)
(* listener of lines 122-130, the first loadState of line 134, the timer of  *)
(* lines 105-116 that the closures of that run share, and the cleanup of     *)
(* lines 136-139.                                                            *)

(* Line 105: let timer = null *)
NoTimer == 0

(* The fetch calls of subscriber s that are not those of its listener *)
OwnCall(s) == <<0, 0, s>>

(* Lines 94-96: loadState() up to its await: fetch with the key and the      *)
(* queryFn alone, so without opts and without tries                          *)
loadState(st, t, queryKey, owner) == fetch(st, t, queryKey, <<>>, 0, owner)

(* Lines 122-134, the effects at mount: attachListener, then loadState().    *)
(* Line 92: timeoutInSeconds = opts.timeoutInSeconds ?? 300.                 *)
useQuery(st, t, queryKey, opts) ==
    LET s == Len(st.subs) + 1
        attached == attachListener(st, queryKey, "loadState")
        loading == loadState(attached, t, queryKey, OwnCall(s))
    IN  [loading EXCEPT !.subs = Append(@,
            [key |-> queryKey,
             timeoutInSeconds |-> Timeout(opts),
             mounted |-> TRUE,
             timer |-> NoTimer,
             handles |-> 0,
             pending |-> {},
             pc |-> "loading",
             call |-> Len(loading.calls),
             slot |-> Len(attached.listeners[queryKey])])]

(* Lines 106-116: reloadInSeconds(seconds).  setTimeout returns a handle     *)
(* that was never returned before and leaves a task pending.                 *)
reloadInSeconds(sub, t, seconds) ==
    IF sub.timer = NoTimer
    THEN [sub EXCEPT !.timer = sub.handles + 1,
                     !.handles = sub.handles + 1,
                     !.pending = @ \cup {[handle |-> sub.handles + 1,
                                          due |-> t + seconds * MsPerSecond]}]
    ELSE sub

(* clearTimeout(handle): the pending task of that handle, if any, is dropped *)
clearTimeout(sub, handle) ==
    [sub EXCEPT !.pending = {task \in @ : task.handle # handle}]

(* Faulty variant of cleanup: the listener of the subscriber detached too *)
cleanupDetach(st, s) ==
    LET sub == st.subs[s]
        listenerArray == st.listeners[sub.key]
    IN  [st EXCEPT !.subs[s].mounted = FALSE,
                   !.subs[s].pending = {},
                   !.listeners[sub.key] =
                       SubSeq(listenerArray, 1, sub.slot - 1)
                       \o SubSeq(listenerArray, sub.slot + 1, Len(listenerArray))]

(* Lines 136-139, the cleanup of the effect: if (timer !== null)             *)
(* clearTimeout(timer).  The variable timer keeps its value.                 *)
cleanup(st, s) ==
    LET sub == st.subs[s]
        cleared == IF sub.timer # NoTimer
                   THEN clearTimeout(sub, sub.timer)
                   ELSE sub
    IN  [st EXCEPT !.subs[s] = [cleared EXCEPT !.mounted = FALSE]]

(* The .then callbacks of loadState(): line 134 after the first load         *)
(* (reloadInSeconds(timeoutInSeconds)), lines 110-113 after a timer's load   *)
(* (timer = null, then reloadInSeconds(seconds))                             *)
loadStateThen(st, t, s) ==
    LET sub == st.subs[s]
        idle == IF sub.pc = "loading"
                THEN [sub EXCEPT !.pc = "idle"]
                ELSE [sub EXCEPT !.pc = "idle", !.timer = NoTimer]
    IN  [st EXCEPT !.subs[s] = reloadInSeconds(idle, t, sub.timeoutInSeconds)]

(* Faulty variant of timerCallback: setInterval for setTimeout, the task     *)
(* stays pending                                                             *)
timerCallbackInterval(st, t, s, task) ==
    LET loading == loadState(st, t, st.subs[s].key, OwnCall(s))
    IN  [loading EXCEPT !.subs[s].pc = "reloading",
                        !.subs[s].call = Len(loading.calls)]

(* Lines 109-110: the timeout of handle task.handle fires, its callback      *)
(* calls loadState()                                                         *)
timerCallback(st, t, s, task) ==
    LET fired == [st EXCEPT !.subs[s].pending = @ \ {task}]
        loading == loadState(fired, t, st.subs[s].key, OwnCall(s))
    IN  [loading EXCEPT !.subs[s].pc = "reloading",
                        !.subs[s].call = Len(loading.calls)]

----------------------------------------------------------------------------
(* The state machine *)

St ==
    [map |-> map, listeners |-> listeners, calls |-> calls, invs |-> invs,
     subs |-> subs]

Becomes(st) ==
    /\ map' = st.map
    /\ listeners' = st.listeners
    /\ calls' = st.calls
    /\ invs' = st.invs
    /\ subs' = st.subs

Op(op, queryKey, id) == [op |-> op, key |-> queryKey, id |-> id]

Init ==
    /\ map = <<>>
    /\ listeners = <<>>
    /\ now = 0
    /\ calls = <<>>
    /\ invs = <<>>
    /\ subs = <<>>
    /\ last = Op("init", "", 0)

(* set(queryKey, data) called from outside *)
Set(queryKey, data) ==
    /\ Becomes([St EXCEPT !.map = set(@, queryKey, data, now)])
    /\ last' = Op("set", queryKey, 0)
    /\ UNCHANGED now

AttachListener(queryKey, cb) ==
    /\ has(listeners, queryKey) => Len(listeners[queryKey]) < MaxListeners
    /\ Becomes(attachListener(St, queryKey, cb))
    /\ last' = Op("attachListener", queryKey, 0)
    /\ UNCHANGED now

InvalidateCache(queryKey) ==
    /\ has(listeners, queryKey) =>
          /\ Len(invs) < MaxInvs
          /\ Len(calls) + Loads(<<Head(listeners[queryKey])>>) <= MaxCalls
    /\ Becomes(invalidateCache(St, now, queryKey))
    /\ last' = Op("invalidateCache", queryKey,
                  IF has(listeners, queryKey) THEN Len(invs) + 1 ELSE 0)
    /\ UNCHANGED now

(* fetch(queryKey, fetchFn, opts, tries) called from outside *)
Fetch(queryKey, opts, tries) ==
    /\ Len(calls) < MaxCalls
    /\ Cardinality({c \in DOMAIN calls : calls[c].owner = <<>>}) < MaxDirect
    /\ Becomes(fetch(St, now, queryKey, opts, tries, <<>>))
    /\ last' = Op("fetch", queryKey, Len(calls) + 1)
    /\ UNCHANGED now

(* The promise fetchFn() returned to call c is fulfilled with data *)
FetchFnFulfils(c, data) ==
    /\ calls[c].pc = "awaiting"
    /\ Becomes(fetchFulfilled(St, now, c, data))
    /\ last' = Op("fulfil", calls[c].key, c)
    /\ UNCHANGED now

(* The promise fetchFn() returned to call c is rejected *)
FetchFnRejects(c) ==
    /\ calls[c].pc = "awaiting"
    /\ Becomes(fetchRejected(St, now, c))
    /\ last' = Op("reject", calls[c].key, c)
    /\ UNCHANGED now

(* The promise of the primary listener of invalidation i is fulfilled *)
PrimaryThen(i) ==
    /\ invs[i].pc = "pending"
    /\ PrimaryPromise(St, i) = "fulfilled"
    /\ has(map, invs[i].key) => Len(calls) + Loads(invs[i].rest) <= MaxCalls
    /\ Becomes(primaryThen(St, now, i))
    /\ last' = Op("then", invs[i].key, i)
    /\ UNCHANGED now

(* The promise of the primary listener of invalidation i is rejected: .then  *)
(* of line 50 has no rejection handler, the callback never runs              *)
PrimaryRejects(i) ==
    /\ invs[i].pc = "pending"
    /\ PrimaryPromise(St, i) = "rejected"
    /\ invs' = [invs EXCEPT ![i].pc = "rejected"]
    /\ last' = Op("primaryRejects", invs[i].key, i)
    /\ UNCHANGED <<map, listeners, calls, subs, now>>

(* Date.now() advances: a second per tick *)
Tick ==
    /\ now < MaxTicks * MsPerSecond
    /\ now' = now + MsPerSecond
    /\ last' = Op("tick", "", 0)
    /\ UNCHANGED <<map, listeners, calls, invs, subs>>

(* The cache and the callers of fetch: the retry loop, concurrent writers   *)
(* (set), invalidation of keys without listeners, and the clock              *)
NextFetch ==
    \/ \E k \in Keys, v \in Values : Set(k, v)
    \/ \E k \in Keys : InvalidateCache(k)
    \/ \E k \in Keys, o \in OptsInputs, tr \in TriesInputs : Fetch(k, o, tr)
    \/ \E c \in DOMAIN calls, v \in Values : FetchFnFulfils(c, v)
    \/ \E c \in DOMAIN calls : FetchFnRejects(c)
    \/ Tick

SpecFetch == Init /\ [][NextFetch]_vars

(* A component that calls useQuery(opts) is mounted: its effects run *)
Mount(queryKey, opts) ==
    /\ Len(subs) < MaxSubs
    /\ Len(calls) < MaxCalls
    /\ has(listeners, queryKey) => Len(listeners[queryKey]) < MaxListeners
    /\ Becomes(useQuery(St, now, queryKey, opts))
    /\ last' = Op("mount", queryKey, Len(subs) + 1)
    /\ UNCHANGED now

(* The effect of subscriber s is cleaned up (unmount, or a new queryKey) *)
Teardown(s) ==
    /\ subs[s].mounted
    /\ Becomes(cleanup(St, s))
    /\ last' = Op("teardown", subs[s].key, s)
    /\ UNCHANGED now

(* The promise of the loadState() that subscriber s began at mount or from   *)
(* its timer is fulfilled: loadState catches what fetch throws               *)
LoadStateThen(s) ==
    /\ subs[s].pc \in {"loading", "reloading"}
    /\ Done(calls[subs[s].call])
    /\ Becomes(loadStateThen(St, now, s))
    /\ last' = Op("loadStateThen", subs[s].key, s)
    /\ UNCHANGED now

(* A pending timeout of subscriber s fires, at its time or later *)
TimerFires(s) ==
    /\ Len(calls) < MaxCalls
    /\ \E task \in subs[s].pending :
          /\ now >= task.due
          /\ Becomes(timerCallback(St, now, s, task))
    /\ last' = Op("timer", subs[s].key, s)
    /\ UNCHANGED now

(* Subscribers: mount, the first load, the refresh timer against the clock,  *)
(* cleanup, and invalidateCache reaching the listeners they attached.  The   *)
(* fetchFn of their calls is fulfilled or stays pending.                     *)
NextSubscriber ==
    \/ \E k \in Keys, o \in OptsInputs : Mount(k, o)
    \/ \E s \in DOMAIN subs : Teardown(s)
    \/ \E s \in DOMAIN subs : LoadStateThen(s)
    \/ \E s \in DOMAIN subs : TimerFires(s)
    \/ \E c \in DOMAIN calls, v \in Values : FetchFnFulfils(c, v)
    \/ \E k \in Keys : InvalidateCache(k)
    \/ \E i \in DOMAIN invs : PrimaryThen(i)
    \/ Tick

SpecSubscriber == Init /\ [][NextSubscriber]_vars

(* The writers of the map together: the callers of fetch and the clock, as  *)
(* in SpecFetch, and attachListener with listeners that do not fetch.  What  *)
(* follows the primary listener's promise is the subject of SpecInvalidate.  *)
NextLifecycle ==
    \/ NextFetch
    \/ \E k \in Keys : AttachListener(k, "resolve")

SpecLifecycle == Init /\ [][NextLifecycle]_vars

(* The cache, its listeners and invalidation, at one instant of the clock.   *)
(* The fetch calls are those of the loadState listeners; their fetchFn is    *)
(* fulfilled or stays pending (the retry loop is the subject of SpecFetch).  *)
NextInvalidate ==
    \/ \E k \in Keys, v \in Values : Set(k, v)
    \/ \E k \in Keys, cb \in Callbacks : AttachListener(k, cb)
    \/ \E k \in Keys : InvalidateCache(k)
    \/ \E c \in DOMAIN calls, v \in Values : FetchFnFulfils(c, v)
    \/ \E i \in DOMAIN invs : PrimaryThen(i)
    \/ \E i \in DOMAIN invs : PrimaryRejects(i)

SpecInvalidate == Init /\ [][NextInvalidate]_vars

----------------------------------------------------------------------------
(* The claims *)

(* The fetch call the last step made or resumed *)
LastCall == calls[last.id]

(* The spec's freshness test (section 4.2, step 2): the entry of queryKey    *)
(* exists and now - insertedAt < ttlSeconds * 1000                           *)
SpecFresh(m, queryKey, opts, t) ==
    /\ has(m, queryKey)
    /\ t - m[queryKey].insertedAt < Timeout(opts) * MsPerSecond

(* C1: retry ceiling.  A fetch call started with attempt counter 0 invokes   *)
(* the operation at most 4 times (the first attempt plus 3 retries) before   *)
(* it fails; no call ever holds more than MaxRetries + 1 invocations.        *)
C1_RetryCeiling ==
    \A c \in DOMAIN calls : calls[c].invocations <= MaxRetries + 1

(* C2: termination of the retry loop.  The attempt counter strictly          *)
(* increases on each retry (which is what bounds the number of retries):     *)
(* every step in which a failed invocation is retried leaves the call with a *)
(* larger tries than it had.                                                 *)
C2_TriesIncrease ==
    [][\A c \in DOMAIN calls :
          (last'.op = "reject" /\ last'.id = c) =>
              calls'[c].tries > calls[c].tries]_vars

(* C3: freshness.  When fetch is called for a key whose entry satisfies      *)
(* now - insertedAt < ttlSeconds * 1000, the call returns the stored data,   *)
(* never invokes the operation, and leaves the map and the listeners         *)
(* unchanged.                                                                *)
C3_Freshness ==
    [][last'.op = "fetch" =>
          LET c == calls'[last'.id] IN
          SpecFresh(map, c.key, c.opts, now) =>
              /\ c.pc = "returned"
              /\ c.result = map[c.key].data
              /\ c.invocations = 0
              /\ map' = map
              /\ listeners' = listeners]_vars

(* C3's case: the last step was a fetch that returned the data of an entry   *)
(* that is a second or more old, without invoking the operation              *)
C3_Witness ==
    /\ last.op = "fetch"
    /\ LastCall.pc = "returned"
    /\ LastCall.invocations = 0
    /\ has(map, LastCall.key)
    /\ LastCall.result = map[LastCall.key].data
    /\ now > map[LastCall.key].insertedAt

(* C4: staleness triggers refetch.  When fetch is called for a key whose     *)
(* entry satisfies now - insertedAt >= ttlSeconds * 1000 (equality           *)
(* included), the call never returns the stored data without invoking the    *)
(* operation.                                                                *)
C4_StaleRefetch ==
    [][last'.op = "fetch" =>
          LET c == calls'[last'.id] IN
          (has(map, c.key) /\ ~SpecFresh(map, c.key, c.opts, now)) =>
              c.pc # "returned"]_vars

(* C5: a fetch call that ends in failure leaves the store as it was: neither *)
(* a failed attempt (the catch block with its retry) nor the throw of line   *)
(* 63 creates, overwrites or removes an entry or changes a listener list.    *)
C5_FailureLeavesStore ==
    [][(\/ last'.op = "reject"
        \/ last'.op = "fetch" /\ calls'[last'.id].pc = "thrown") =>
          /\ map' = map
          /\ listeners' = listeners]_vars

(* C5's case: the last step was a fetch that threw, and the stale entry of   *)
(* its key is still in the map                                               *)
C5_Witness ==
    /\ last.op = "fetch"
    /\ LastCall.pc = "thrown"
    /\ has(map, LastCall.key)
    /\ now - map[LastCall.key].insertedAt >= Timeout(LastCall.opts) * MsPerSecond

(* C6: successful retry recovery.  When the third invocation of a call is    *)
(* the one that succeeds, the call returns that value after exactly 3        *)
(* invocations and the map holds the key's entry with that value, stamped    *)
(* with the time of the success.                                             *)
C6_RetryRecovery ==
    [][\A c \in DOMAIN calls :
          (last'.op = "fulfil" /\ last'.id = c /\ calls[c].invocations = 3) =>
              /\ calls'[c].pc = "returned"
              /\ calls'[c].result \in Values
              /\ calls'[c].invocations = 3
              /\ has(map', calls[c].key)
              /\ map'[calls[c].key] =
                     [data |-> calls'[c].result, insertedAt |-> now]]_vars

(* C6's case: the third invocation of a call has just succeeded, later than  *)
(* the call began                                                            *)
C6_Witness ==
    /\ last.op = "fulfil"
    /\ LastCall.pc = "returned"
    /\ LastCall.invocations = 3
    /\ LastCall.startedAt < now
    /\ map[LastCall.key] = [data |-> LastCall.result, insertedAt |-> now]

(* The fetch calls made by the secondary listeners of invalidation i *)
SecondaryCalls(i) ==
    {c \in DOMAIN calls : Len(calls[c].owner) = 2 /\ calls[c].owner[1] = i
                          /\ calls[c].owner[2] > 1}

(* C7: primary before secondary.  In every invalidateCache call the first    *)
(* listener of the key is the one invoked first, and as long as its promise  *)
(* is not fulfilled no other listener has been invoked by that call.         *)
C7_PrimaryFirst ==
    \A i \in DOMAIN invs :
        /\ invs[i].primary = Head(listeners[invs[i].key])
        /\ Head(invs[i].invoked) = invs[i].primary
        /\ PrimaryPromise(St, i) # "fulfilled" =>
              /\ invs[i].invoked = <<invs[i].primary>>
              /\ SecondaryCalls(i) = {}

(* C7's case: a loadState primary was awaited, and the secondaries were      *)
(* invoked after it                                                          *)
C7_Witness ==
    \E i \in DOMAIN invs :
        /\ invs[i].primary = "loadState"
        /\ invs[i].rest # <<>>
        /\ invs[i].invoked = <<invs[i].primary>> \o invs[i].rest
        /\ calls[CallOf(calls, i, 1)].invocations = 1

(* C8: conditional secondary notification.  When the primary's promise is    *)
(* fulfilled, the rest of the listeners are invoked, each element once and   *)
(* in order, if the map holds the key at that moment, and none is invoked if *)
(* it does not; an invalidateCache call whose primary is pending or was      *)
(* rejected has invoked no secondary.                                        *)
C8_ConditionalSecondaries ==
    [][/\ \A i \in DOMAIN invs :
            (last'.op = "then" /\ last'.id = i) =>
                IF has(map, invs[i].key)
                THEN /\ invs'[i].pc = "notified"
                     /\ invs'[i].invoked = <<invs[i].primary>> \o invs[i].rest
                     /\ Len(calls') = Len(calls) + Loads(invs[i].rest)
                ELSE /\ invs'[i].pc = "skipped"
                     /\ invs'[i].invoked = <<invs[i].primary>>
                     /\ calls' = calls
       /\ \A i \in DOMAIN invs' :
            invs'[i].pc # "notified" =>
                /\ invs'[i].invoked = <<invs'[i].primary>>
                /\ \A c \in DOMAIN calls' :
                      Len(calls'[c].owner) = 2 /\ calls'[c].owner[1] = i
                          => calls'[c].owner[2] = 1]_vars

(* C8's case: a loadState primary refetched, the entry was gone again when   *)
(* its promise was fulfilled, and the secondaries were not invoked           *)
C8_Witness ==
    \E i \in DOMAIN invs :
        /\ invs[i].pc = "skipped"
        /\ invs[i].primary = "loadState"
        /\ invs[i].rest # <<>>
        /\ calls[CallOf(calls, i, 1)].invocations = 1
        /\ last.op = "then"
        /\ last.id = i

(* C9: invalidation clears state.  When invalidateCache(K) returns the map   *)
(* holds no entry of K; an absent entry appears only by a set of K or by the *)
(* success of the operation of a fetch of K; and a fetch that looks K up     *)
(* while it is absent returns no stored data: it invokes the operation or    *)
(* throws.                                                                   *)
C9_InvalidationClears ==
    [][/\ last'.op = "invalidateCache" => ~has(map', last'.key)
       /\ \A k \in Keys :
            (~has(map, k) /\ has(map', k)) =>
                (last'.op \in {"set", "fulfil"} /\ last'.key = k)
       /\ \A c \in DOMAIN calls' \ DOMAIN calls :
            ~has(map', calls'[c].key) =>
                /\ calls'[c].pc \in {"awaiting", "thrown"}
                /\ calls'[c].result = NoValue
                /\ calls'[c].tries < MaxRetries =>
                      (calls'[c].pc = "awaiting" /\ calls'[c].invocations = 1)]_vars

(* C9's case: the key was fetched and cached, then invalidated; its entry is *)
(* gone and the fetch of the primary listener has invoked the operation      *)
C9_Witness ==
    /\ last.op = "invalidateCache"
    /\ last.id > 0
    /\ ~has(map, last.key)
    /\ CallOf(calls, last.id, 1) # 0
    /\ calls[CallOf(calls, last.id, 1)].pc = "awaiting"
    /\ \E c \in DOMAIN calls :
          /\ calls[c].key = last.key
          /\ calls[c].pc = "returned"
          /\ calls[c].invocations = 1

(* C10: idempotent invalidation.  On a key without listeners                 *)
(* invalidateCache removes the key's entry and changes nothing else, no      *)
(* listener is invoked; without an entry either, the state is unchanged; and *)
(* a second invalidateCache changes nothing the first did not.               *)
C10_IdempotentInvalidate ==
    \A k \in Keys :
        ~has(listeners, k) =>
            LET once == invalidateCache(St, now, k) IN
            /\ once = [St EXCEPT !.map = [x \in DOMAIN map \ {k} |-> map[x]]]
            /\ ~has(map, k) => once = St
            /\ invalidateCache(once, now, k) = once

(* C10's case: invalidateCache has just run on a key without listeners,      *)
(* another key holds an entry and listeners                                  *)
C10_Witness ==
    /\ last.op = "invalidateCache"
    /\ last.id = 0
    /\ ~has(listeners, last.key)
    /\ \E k \in Keys \ {last.key} : has(map, k) /\ has(listeners, k)

(* The calls that this step ended by returning a value *)
Returning(c) ==
    /\ calls'[c].pc = "returned"
    /\ c \in DOMAIN calls => calls[c].pc # "returned"

(* C11: every value fetch returns is either the data of an entry of the key  *)
(* that passes the freshness test (now - insertedAt < ttlSeconds * 1000)     *)
(* when the call returns, or the result of a successful invocation of the    *)
(* operation by that call, which was also written to the map.                *)
C11_ReturnJustified ==
    [][\A c \in DOMAIN calls' :
          Returning(c) =>
              LET k == calls'[c].key IN
              \/ /\ last'.op = "fulfil"
                 /\ last'.id = c
                 /\ has(map', k)
                 /\ map'[k].data = calls'[c].result
              \/ /\ SpecFresh(map, k, calls'[c].opts, now)
                 /\ calls'[c].result = map[k].data]_vars

(* C14: the retry re-checks freshness.  When an invocation fails and the map *)
(* holds a fresh entry of the key (written by someone else while the         *)
(* operation was in flight), the retry returns that entry's data: the        *)
(* operation is not invoked again and the call does not throw.               *)
C14_RetryRechecks ==
    [][\A c \in DOMAIN calls :
          (/\ last'.op = "reject"
           /\ last'.id = c
           /\ SpecFresh(map, calls[c].key, calls[c].opts, now)) =>
              /\ calls'[c].pc = "returned"
              /\ calls'[c].result = map[calls[c].key].data
              /\ calls'[c].invocations = calls[c].invocations]_vars

(* C14's case: the second invocation of a call has just failed, and the      *)
(* call returned the entry another caller wrote meanwhile                    *)
C14_Witness ==
    /\ last.op = "reject"
    /\ LastCall.pc = "returned"
    /\ LastCall.invocations = 2
    /\ has(map, LastCall.key)
    /\ LastCall.result = map[LastCall.key].data
    /\ map[LastCall.key].insertedAt > LastCall.startedAt

(* The calls this step began *)
Began(c) == c \in DOMAIN calls' /\ c \notin DOMAIN calls

InFlightAt(cs, is, c, i) ==
    /\ Len(cs[c].owner) = 2
    /\ cs[c].owner[2] = 1
    /\ cs[c].owner[1] < i
    /\ is[i].key = cs[c].key

(* C19, as the claim states it: the result of an invocation that was in      *)
(* flight when invalidateCache(K) ran is never written to the map.           *)
C19_OlderFetchDiscarded ==
    [][\A c \in DOMAIN calls : \A i \in DOMAIN invs :
          (/\ last'.op = "fulfil"
           /\ last'.id = c
           /\ InFlightAt(calls, invs, c, i)) =>
              (has(map', calls[c].key) =>
                   /\ has(map, calls[c].key)
                   /\ map'[calls[c].key] = map[calls[c].key])]_vars

(* C19, amended: invalidateCache(K) does not cancel the invocations in       *)
(* flight.  An invocation that was in flight when invalidateCache(K) ran     *)
(* still writes its result when it completes, stamped with the time of the   *)
(* completion, so the entry is there again for later callers and for the     *)
(* test that follows the primary listener.                                   *)
C19_OlderFetchStillWrites ==
    [][\A c \in DOMAIN calls : \A i \in DOMAIN invs :
          (/\ last'.op = "fulfil"
           /\ last'.id = c
           /\ InFlightAt(calls, invs, c, i)) =>
              /\ has(map', calls[c].key)
              /\ map'[calls[c].key].data = calls'[c].result
              /\ map'[calls[c].key].insertedAt = now]_vars

(* C19's case: the fetch the first invalidation began has completed after    *)
(* the second invalidation of the key, whose own fetch is still awaiting,    *)
(* and the map holds the older fetch's result                                *)
C19_Witness ==
    /\ last.op = "fulfil"
    /\ Len(invs) = 2
    /\ InFlightAt(calls, invs, last.id, 2)
    /\ CallOf(calls, 2, 1) # 0
    /\ calls[CallOf(calls, 2, 1)].pc = "awaiting"
    /\ has(map, last.key)
    /\ map[last.key].data = LastCall.result

(* C16: the entry of a key is created or overwritten only by set on that    *)
(* key or by the completion of an invocation of a fetch of that key, and is  *)
(* removed only by invalidateCache of that key.  Every other step (the clock *)
(* passing the entry's timeout, a fetch served from the map, a failed        *)
(* invocation, attachListener, any operation on another key) leaves the      *)
(* entry, data and insertedAt, as it was.                                    *)
C16_EntryLifecycle ==
    [][\A k \in Keys :
          /\ (has(map', k) /\ (~has(map, k) \/ map'[k] # map[k])) =>
                 /\ last'.op \in {"set", "fulfil"}
                 /\ last'.key = k
                 /\ map'[k].insertedAt = now
          /\ (has(map, k) /\ ~has(map', k)) =>
                 /\ last'.op = "invalidateCache"
                 /\ last'.key = k]_vars

(* C16's case: an invocation for one key has completed and written its       *)
(* entry, and the entry of the other key, older than a caller's timeout,     *)
(* is still there with the time it was written at                            *)
C16_Witness ==
    /\ last.op = "fulfil"
    /\ \E k \in Keys \ {last.key} :
          /\ has(map, k)
          /\ has(map, last.key)
          /\ map[last.key].insertedAt = now
          /\ map[k].insertedAt < now
          /\ \E o \in OptsInputs : IsStale(map[k], o, now)

(* C12: teardown cancels the refresh.  Once the effect of a subscriber has   *)
(* been cleaned up, no timeout of that subscriber fires and starts a fetch,  *)
(* whatever the subscriber was doing when the cleanup ran.                   *)
C12_TeardownCancels ==
    [][\A s \in DOMAIN subs :
          (last'.op = "timer" /\ last'.id = s) => subs[s].mounted]_vars

(* C13: a subscriber has at most one timeout pending.  A timeout is set only *)
(* when none is pending and the variable timer is null at that moment, and   *)
(* timer goes back to null only in the .then of the loadState() that a       *)
(* timeout began, once its fetch has ended, right before the next            *)
(* setTimeout.                                                               *)
C13_OnePendingTask ==
    [][\A s \in DOMAIN subs' :
          /\ Cardinality(subs'[s].pending) <= 1
          /\ s \in DOMAIN subs =>
                /\ ~(subs'[s].pending \subseteq subs[s].pending) =>
                      /\ subs[s].pending = {}
                      /\ last'.op = "loadStateThen"
                      /\ last'.id = s
                      /\ subs[s].timer = NoTimer \/ subs[s].pc = "reloading"
                /\ (subs[s].timer # NoTimer /\ subs'[s].timer # subs[s].timer) =>
                      /\ last'.op = "loadStateThen"
                      /\ last'.id = s
                      /\ subs[s].pc = "reloading"
                      /\ Done(calls[subs[s].call])
                      /\ subs'[s].timer # NoTimer
                      /\ Cardinality(subs'[s].pending) = 1]_vars

(* C13's case: the fetch a timeout began has ended, timer was set to null    *)
(* and the second timeout of the subscriber is the one pending               *)
C13_Witness ==
    /\ last.op = "loadStateThen"
    /\ subs[last.id].handles = 2
    /\ subs[last.id].timer = 2
    /\ subs[last.id].pending # {}
    /\ \A task \in subs[last.id].pending : task.handle = 2

(* The length of the listener array of a key, 0 without one *)
ListenerCount(l, queryKey) == IF has(l, queryKey) THEN Len(l[queryKey]) ELSE 0

(* C17: the listener arrays only grow at their end.  A step leaves every     *)
(* array as a prefix of what it becomes; an array grows only by the          *)
(* attachListener of a mount on its key, by one callback at its end, also    *)
(* when the same callback is in it already; set (called by fetch), fetch,    *)
(* invalidateCache and the cleanup of a subscriber remove and move nothing.  *)
(* So the primary listener of invalidateCache is the first callback attached *)
(* to the key, that of a subscriber already cleaned up included.             *)
C17_ListenersAppendOnly ==
    [][\A k \in Keys :
          /\ has(listeners, k) =>
                /\ has(listeners', k)
                /\ Len(listeners'[k]) >= Len(listeners[k])
                /\ SubSeq(listeners'[k], 1, Len(listeners[k])) = listeners[k]
          /\ ListenerCount(listeners', k) > ListenerCount(listeners, k) =>
                /\ last'.op = "mount"
                /\ last'.key = k
                /\ Len(listeners'[k]) = ListenerCount(listeners, k) + 1
                /\ subs'[last'.id].slot = Len(listeners'[k])
          /\ (last'.op = "invalidateCache" /\ last'.key = k /\ has(listeners, k)) =>
                /\ invs'[last'.id].primary = listeners[k][1]
                /\ \A s \in DOMAIN subs :
                      (subs[s].key = k /\ subs[s].slot = 1) =>
                          CallOf(calls', last'.id, 1) # 0]_vars

(* C17's case: two subscribers attached their listeners to a key, the first  *)
(* was cleaned up, and invalidateCache has called the first one's listener   *)
(* as primary, which began a fetch                                           *)
C17_Witness ==
    /\ last.op = "invalidateCache"
    /\ last.id # 0
    /\ Len(listeners[last.key]) = 2
    /\ CallOf(calls, last.id, 1) # 0
    /\ calls[CallOf(calls, last.id, 1)].pc = "awaiting"
    /\ \E s \in DOMAIN subs :
          /\ subs[s].key = last.key
          /\ subs[s].slot = 1
          /\ ~subs[s].mounted

(* C18: the periodic refresh fetches again.  With no other writer of the key *)
(* (one subscriber, no invalidation), the timeout of a subscriber with       *)
(* timeoutInSeconds = T fires T seconds or more after its last fetch ended,  *)
(* and the fetch it begins invokes fetchFn instead of returning the entry    *)
(* that fetch wrote.                                                         *)
C18_RefreshRefetches ==
    [][\A s \in DOMAIN subs :
          (/\ last'.op = "timer"
           /\ last'.id = s
           /\ Len(subs) = 1
           /\ invs = <<>>) =>
              /\ calls'[subs'[s].call].pc = "awaiting"
              /\ calls'[subs'[s].call].invocations = 1]_vars

====
